---- MODULE Spec2Model ----
(***************************************************************************)
(* A model of the caching reverse proxy of package revproxy                *)
(* (src/unnamed/part_000): the Cache-Control parser, the cacheability      *)
(* classifiers and Server.ServeHTTP with its three cache tiers.            *)
(***************************************************************************)
EXTENDS Integers, Sequences, FiniteSets, Bags, TLC

(***************************************************************************)
(* Bounds of the model.                                                    *)
(***************************************************************************)
\* number of requests that may be in flight at the same time
MaxInFlight == 1
\* total number of requests the server receives in one behaviour
MaxReq == 2
\* number of directives of a Cache-Control header handed to the classifiers
MaxDirectives == 2

(***************************************************************************)
(* 64-bit arithmetic.  TLC's integers are 32 bits wide, so an int64 is a   *)
(* little-endian sequence of limbs in base 2^15; a non-negative integer of *)
(* any size is such a sequence without leading zero limbs (0 is <<>>).     *)
(***************************************************************************)
LimbBase == 2^15

RECURSIVE MulAdd(_, _, _)
\* n*k + c for a limb sequence n and small k, c
MulAdd(n, k, c) ==
    IF n = <<>>
    THEN IF c = 0 THEN <<>> ELSE <<c % LimbBase>> \o MulAdd(<<>>, k, c \div LimbBase)
    ELSE LET t == Head(n) * k + c
         IN  <<t % LimbBase>> \o MulAdd(Tail(n), k, t \div LimbBase)

RECURSIVE CmpFromTop(_, _, _)
CmpFromTop(a, b, i) ==
    IF i = 0 THEN 0
    ELSE IF a[i] < b[i] THEN -1
    ELSE IF a[i] > b[i] THEN 1
    ELSE CmpFromTop(a, b, i - 1)

\* -1, 0, 1 as a < b, a = b, a > b (normalised limb sequences)
Cmp(a, b) ==
    IF Len(a) < Len(b) THEN -1
    ELSE IF Len(a) > Len(b) THEN 1
    ELSE CmpFromTop(a, b, Len(a))

RECURSIVE Normalise(_)
Normalise(n) ==
    IF n = <<>> THEN <<>>
    ELSE IF n[Len(n)] = 0 THEN Normalise(SubSeq(n, 1, Len(n) - 1))
    ELSE n

\* the low 64 bits of n, as a normalised limb sequence (four limbs of 15
\* bits and the low 4 bits of the fifth)
Low64(n) ==
    Normalise([i \in 1..5 |->
        IF i > Len(n) THEN 0 ELSE IF i = 5 THEN n[i] % 16 ELSE n[i]])

\* 2^63 and 2^64
Pow63 == <<0, 0, 0, 0, 8>>
Pow64 == <<0, 0, 0, 0, 16>>

RECURSIVE SubLimbs(_, _, _)
\* a - b - borrow for a >= b, limb by limb
SubLimbs(a, b, borrow) ==
    IF a = <<>> THEN <<>>
    ELSE LET bi == IF b = <<>> THEN 0 ELSE Head(b)
             t  == Head(a) - bi - borrow
         IN  <<(t + LimbBase) % LimbBase>>
             \o SubLimbs(Tail(a), IF b = <<>> THEN <<>> ELSE Tail(b),
                         IF t < 0 THEN 1 ELSE 0)

\* the 64-bit two's complement word of the integer sign*mag
Word64(neg, mag) ==
    LET u == Low64(mag)
    IN  IF neg /\ u # <<>> THEN Normalise(SubLimbs(Pow64, u, 0)) ELSE u

\* a 64-bit word read as a signed int64: negative when bit 63 is set
IsNeg64(w) == Cmp(w, Pow63) >= 0
\* signed comparison a > b of two 64-bit words
Gt64(a, b) ==
    IF IsNeg64(a) # IsNeg64(b) THEN IsNeg64(b) ELSE Cmp(a, b) > 0

Zero64 == <<>>
\* time.Second, in nanoseconds
Second == MulAdd(MulAdd(MulAdd(<<1>>, 1000, 0), 1000, 0), 1000, 0)
\* time.Hour
Hour == MulAdd(MulAdd(Second, 60, 0), 60, 0)
\* const goodLongTime = 60 * 24 * time.Hour
goodLongTime == MulAdd(MulAdd(Hour, 24, 0), 60, 0)

(***************************************************************************)
(* Strings.  A header value is a sequence of characters; the words of the  *)
(* Cache-Control vocabulary ("no-store", "max-age", ...) are single        *)
(* characters of the model, as are ",", " ", "=", "+", "-" and the digits. *)
(***************************************************************************)
Digits == {"0", "1", "2", "3", "4", "5", "6", "7", "8", "9"}
DigitVal(c) ==
    CASE c = "0" -> 0 [] c = "1" -> 1 [] c = "2" -> 2 [] c = "3" -> 3
      [] c = "4" -> 4 [] c = "5" -> 5 [] c = "6" -> 6 [] c = "7" -> 7
      [] c = "8" -> 8 [] c = "9" -> 9

RECURSIVE Split(_, _)
\* strings.Split(s, sep) for a one-character separator
Split(s, sep) ==
    IF \E i \in 1..Len(s) : s[i] = sep
    THEN LET i == CHOOSE i \in 1..Len(s) :
                      s[i] = sep /\ \A j \in 1..(i - 1) : s[j] # sep
         IN  <<SubSeq(s, 1, i - 1)>> \o Split(SubSeq(s, i + 1, Len(s)), sep)
    ELSE <<s>>

RECURSIVE TrimSpace(_)
TrimSpace(s) ==
    IF s = <<>> THEN s
    ELSE IF Head(s) = " " THEN TrimSpace(Tail(s))
    ELSE IF s[Len(s)] = " " THEN TrimSpace(SubSeq(s, 1, Len(s) - 1))
    ELSE s

\* strings.Cut(s, sep): before, after, found
Cut(s, sep) ==
    IF \E i \in 1..Len(s) : s[i] = sep
    THEN LET i == CHOOSE i \in 1..Len(s) :
                      s[i] = sep /\ \A j \in 1..(i - 1) : s[j] # sep
         IN  [key |-> SubSeq(s, 1, i - 1), val |-> SubSeq(s, i + 1, Len(s)),
              ok |-> TRUE]
    ELSE [key |-> s, val |-> <<>>, ok |-> FALSE]

RECURSIVE DigitsValue(_, _)
\* the integer written by the decimal digits s, after the value acc
DigitsValue(s, acc) ==
    IF s = <<>> THEN acc
    ELSE DigitsValue(Tail(s), MulAdd(acc, 10, DigitVal(Head(s))))

\* strconv.Atoi on a 64-bit platform: an optional sign, then one or more
\* decimal digits; a value outside [-2^63, 2^63-1] is a range error.
Atoi(s) ==
    LET signed == s # <<>> /\ Head(s) \in {"+", "-"}
        neg    == s # <<>> /\ Head(s) = "-"
        ds     == IF signed THEN Tail(s) ELSE s
        syntax == ds # <<>> /\ \A i \in 1..Len(ds) : ds[i] \in Digits
        mag    == IF syntax THEN DigitsValue(ds, <<>>) ELSE <<>>
        range  == IF neg THEN Cmp(mag, Pow63) <= 0 ELSE Cmp(mag, Pow63) < 0
    IN  [err |-> ~(syntax /\ range), neg |-> neg, mag |-> mag]

(***************************************************************************)
(* The Cache-Control parser and the cacheability classifiers.              *)
(***************************************************************************)
\* time.Duration(sec) * time.Second: an int64 product, which wraps
DurationSeconds(a) ==
    Word64(a.neg, MulAdd(MulAdd(MulAdd(a.mag, 1000, 0), 1000, 0), 1000, 0))

RECURSIVE parseElements(_, _)
\* the loop of parseCacheControl over the elements vs, from the value out
parseElements(vs, out) ==
    IF vs = <<>> THEN out
    ELSE LET e   == Cut(TrimSpace(Head(vs)), "=")
             a   == Atoi(e.val)
             age == IF e.ok /\ e.key = <<"max-age">> /\ ~a.err
                    THEN DurationSeconds(a) ELSE out.MaxAge
         IN  parseElements(Tail(vs),
                 [Keys |-> out.Keys \cup {e.key}, MaxAge |-> age])

parseCacheControl(s) ==
    parseElements(Split(s, ","), [Keys |-> {}, MaxAge |-> Zero64])

\* mapset.Set.Has for a key that is one word of the vocabulary
Has(keys, word) == <<word>> \in keys

StatusOK == 200
StatusBadGateway == 502

\* canCacheRequest without the test of no-store
canCacheRequestAnyGet(r) == r.method = "GET"

canCacheRequest(r) ==
    r.method = "GET" /\ ~Has(parseCacheControl(r.cc).Keys, "no-store")

canCacheResponse(rsp) ==
    IF rsp.status # StatusOK THEN FALSE
    ELSE LET cc == parseCacheControl(rsp.cc)
         IN  IF Has(cc.Keys, "no-store") THEN FALSE
             ELSE IF Has(cc.Keys, "immutable") THEN TRUE
             ELSE Has(cc.Keys, "must-revalidate") /\ Gt64(cc.MaxAge, goodLongTime)

canMemoryCache(rsp) ==
    IF rsp.status # StatusOK THEN [maxAge |-> Zero64, ok |-> FALSE]
    ELSE LET cc == parseCacheControl(rsp.cc)
         IN  IF Has(cc.Keys, "no-store") \/ Has(cc.Keys, "no-cache")
             THEN [maxAge |-> Zero64, ok |-> FALSE]
             ELSE IF Gt64(cc.MaxAge, Zero64) /\ Gt64(Hour, cc.MaxAge)
             THEN [maxAge |-> cc.MaxAge, ok |-> TRUE]
             ELSE [maxAge |-> Zero64, ok |-> FALSE]

(***************************************************************************)
(* Header values handed to the classifiers.  A directive is a name with an *)
(* optional "=value"; a header value is its directives joined by ", ".     *)
(***************************************************************************)
Directive(name, eq, val) == [name |-> name, eq |-> eq, val |-> val]
Flag(name) == Directive(name, FALSE, <<>>)
MaxAgeOf(val) == Directive("max-age", TRUE, val)

RenderDirective(d) == IF d.eq THEN <<d.name, "=">> \o d.val ELSE <<d.name>>

RECURSIVE RenderHeader(_)
RenderHeader(ds) ==
    IF ds = <<>> THEN <<>>
    ELSE IF Len(ds) = 1 THEN RenderDirective(ds[1])
    ELSE RenderDirective(ds[1]) \o <<",", " ">> \o RenderHeader(Tail(ds))

\* max-age values: around the one-hour and sixty-day thresholds, around the
\* int64 limits of the seconds and of the nanosecond product, and unparsable
AgeValues ==
    { <<"0">>, <<"3", "0">>, <<"3", "5", "9", "9">>, <<"3", "6", "0", "0">>,
      <<"5", "1", "8", "4", "0", "0", "0">>,
      <<"5", "1", "8", "4", "0", "0", "1">>,
      <<"9", "2", "2", "3", "3", "7", "2", "0", "3", "6">>,
      <<"9", "2", "2", "3", "3", "7", "2", "0", "3", "7">>,
      <<"1", "8", "4", "4", "6", "7", "4", "4", "0", "7", "4">>,
      <<"9", "2", "2", "3", "3", "7", "2", "0", "3", "6",
        "8", "5", "4", "7", "7", "5", "8", "0", "8">>,
      <<"-", "5">>, <<"x">>, <<>> }

CCDirectives ==
    { Flag("no-store"), Flag("no-cache"), Flag("immutable"),
      Flag("must-revalidate"), Flag("public"), Flag("max-age") }
    \cup { MaxAgeOf(v) : v \in AgeValues }

RECURSIVE SeqsUpTo(_, _)
\* the sequences over S of length at most n
SeqsUpTo(S, n) ==
    IF n = 0 THEN { <<>> }
    ELSE LET shorter == SeqsUpTo(S, n - 1)
         IN  shorter \cup { <<x>> \o t : x \in S, t \in { u \in shorter : Len(u) = n - 1 } }

CCHeaders == SeqsUpTo(CCDirectives, MaxDirectives)
ClassifierStatuses == {StatusOK, 404}

(***************************************************************************)
(* The server: configuration, inputs and state.                            *)
(***************************************************************************)
\* Server.Targets, and the Host values requests arrive with
Targets == {"x.example"}
\* request URLs and their digests: hashRequestURL is injective on them
URLs == {"/a", "/b"}
hashRequestURL(u) == IF u = "/a" THEN "h1" ELSE "h2"
Hashes == { hashRequestURL(u) : u \in URLs }
\* the requests the server receives: host, method, Cache-Control and URL
Request(host, method, cc, url) ==
    [host |-> host, method |-> method, cc |-> cc, url |-> url]
Requests ==
    { Request("x.example", "GET", <<>>, "/a"),
      Request("x.example", "GET", <<>>, "/b"),
      Request("x.example", "GET", RenderHeader(<<Flag("public"), Flag("no-store")>>), "/a"),
      Request("x.example", "POST", <<>>, "/a"),
      Request("other.example", "GET", <<>>, "/a") }
\* response bodies: no proper prefix of one is a body itself
Bodies == { <<"a", "b">>, <<"c">> }

\* the headers of the model: the X-Cache values and the X-Cache-Id value
NoHeader == [xcache |-> <<>>, id |-> ""]
Response(status, ds, body, hdr) ==
    [status |-> status, cc |-> RenderHeader(ds), body |-> body, hdr |-> hdr]
\* the responses of the origin; the last one comes with an X-Cache header of
\* the origin's own
OriginResponses ==
    { Response(StatusOK, <<Flag("immutable")>>, b, NoHeader) : b \in Bodies }
    \cup { Response(StatusOK, <<MaxAgeOf(<<"3", "0">>)>>, <<"a", "b">>, NoHeader),
           Response(StatusOK, <<Flag("immutable"), MaxAgeOf(<<"3", "0">>)>>, <<"c">>, NoHeader),
           Response(StatusOK, <<Flag("no-store"), Flag("immutable")>>, <<"c">>, NoHeader),
           Response(404, <<Flag("immutable")>>, <<"c">>,
                    [xcache |-> <<"HIT">>, id |-> ""]) }

\* runtime.NumCPU(): the limit of the write-behind task group
NumCPU == 1

VARIABLES
    req,       \* the requests in flight: one ServeHTTP call per slot
    mcache,    \* s.mcache: the memory cache, hash -> <<>> or <<entry>>
    expire,    \* s.expire: the pending expiration timers
    local,     \* the local cache directory, hash -> <<>> or <<file>>
    remote,    \* the S3 bucket, hash -> <<>> or <<entry>>
    tasks,     \* the bag of write-behind tasks started and not finished
    counters,  \* the expvar counters of the server
    cls        \* the part examined on its own (a classifier, the memory
               \* cache, a local file): the input of its last operation
               \* and the results; with the server, the number of requests
               \* it has rejected (for which it has no counter)

vars == <<req, mcache, expire, local, remote, tasks, counters, cls>>

Slots == 1..MaxInFlight

CounterNames ==
    { "req_received", "req_memory_hit", "req_local_hit", "req_local_miss",
      "req_fault_hit", "req_fault_miss", "req_forward", "rsp_save",
      "rsp_save_memory", "rsp_save_error", "rsp_save_bytes", "rsp_push",
      "rsp_push_error", "rsp_push_bytes", "rsp_not_cached" }
ZeroCounters == [c \in CounterNames |-> 0]

\* expvar.Int.Add on the counters in adds (a function name -> amount)
Add(cs, adds) ==
    [c \in CounterNames |-> IF c \in DOMAIN adds THEN cs[c] + adds[c] ELSE cs[c]]

NoResponse == [status |-> 0, hdr |-> NoHeader, body |-> <<>>, complete |-> FALSE]
NoOrigin == [status |-> 0, cc |-> <<>>, body |-> <<>>, hdr |-> NoHeader]
NoEntry == [hdr |-> NoHeader, body |-> <<>>]

\* a slot with no request in it
Idle ==
    [pc |-> "idle", host |-> "", method |-> "", cc |-> <<>>, url |-> "",
     hash |-> "", canCache |-> FALSE, rsp |-> NoOrigin, update |-> "none",
     data |-> NoEntry, underServer |-> TRUE, resp |-> NoResponse,
     ops |-> <<>>, inc |-> ZeroCounters]

ClsOff ==
    [pc |-> "off", status |-> 0, dirs |-> <<>>, durable |-> FALSE,
     volatile |-> FALSE, maxAge |-> Zero64, rejected |-> 0]

ServerInit ==
    /\ req = [s \in Slots |-> Idle]
    /\ mcache = [h \in Hashes |-> <<>>]
    /\ expire = {}
    /\ local = [h \in Hashes |-> <<>>]
    /\ remote = [h \in Hashes |-> <<>>]
    /\ tasks = EmptyBag
    /\ counters = ZeroCounters

Init == ServerInit /\ cls = ClsOff

(***************************************************************************)
(* Helpers of ServeHTTP.                                                   *)
(***************************************************************************)
\* hostMatchesTarget that takes every host for a target
hostMatchesTargetAnyHost(host, targets) == host # ""

hostMatchesTarget(host, targets) == host \in targets

\* http.Header.Set of X-Cache, and of X-Cache-Id when hash is not empty
setXCacheInfo(h, result, hash) ==
    [xcache |-> <<result>>, id |-> IF hash # "" THEN hash ELSE h.id]

\* the headers of hdr are added to those of w, then the body is written
writeCachedResponse(w, hdr, body) ==
    [status |-> StatusOK,
     hdr |-> [xcache |-> w.hdr.xcache \o hdr.xcache,
              id |-> IF w.hdr.id # "" THEN w.hdr.id ELSE hdr.id],
     body |-> body, complete |-> TRUE]

NoAdds == [c \in {} |-> 0]

\* the slot s moves to the record new and the counters in adds go up, in the
\* server and in the tally of the request
Advance(s, new, adds) ==
    /\ req' = [req EXCEPT ![s] = [new EXCEPT !.inc = Add(new.inc, adds)]]
    /\ counters' = Add(counters, adds)

\* the record r with op added to the operations the request has performed
Log(r, op) == [r EXCEPT !.ops = Append(r.ops, op)]

\* Forward without s.reqForward.Add(1)
ForwardUncounted(s, r, adds) ==
    Advance(s, [Log(r, "origin") EXCEPT !.pc = "origin"], adds)

\* s.reqForward.Add(1) and the proxy's round trip to the origin begins
Forward(s, r, adds) ==
    Advance(s, [Log(r, "origin") EXCEPT !.pc = "origin"],
            adds @@ ("req_forward" :> 1))

(***************************************************************************)
(* The cache tiers.  A load gives <<>> (an error: not found, unreadable,   *)
(* undecodable) or <<entry>>.                                              *)
(***************************************************************************)
\* a cache object: the headers and the body of a response
Entry(hdr, body) == [hdr |-> hdr, body |-> body]

cacheLoadMemory(hash) ==
    IF mcache[hash] = <<>> THEN <<>>
    ELSE <<Entry(mcache[hash][1].hdr, mcache[hash][1].body)>>

\* ioerr: the file is there and cannot be read or decoded
cacheLoadLocal(hash, ioerr) == IF ioerr THEN <<>> ELSE local[hash]

\* neterr: the GET of the object fails
cacheLoadS3(hash, neterr) == IF neterr THEN <<>> ELSE remote[hash]

\* the file is written whole (a temporary file, then a rename) or not at all
cacheStoreLocal(hash, hdr, body, ok) ==
    local' = IF ok THEN [local EXCEPT ![hash] = <<Entry(hdr, body)>>] ELSE local

\* the entry replaces the one under hash and its expiration is scheduled
cacheStoreMemory(hash, hdr, body) ==
    LET gen == counters.rsp_save_memory + 1
    IN  /\ mcache' = [mcache EXCEPT ![hash] =
                         <<[hdr |-> hdr, body |-> body, gen |-> gen]>>]
        /\ expire' = expire \cup {[hash |-> hash, gen |-> gen]}

\* the bytes of an encoded cache object: a line for each header, the blank
\* line and the body
EncodedLen(e) ==
    Len(e.hdr.xcache) + (IF e.hdr.id # "" THEN 1 ELSE 0) + 1 + Len(e.body)

(***************************************************************************)
(* ServeHTTP, one action for each step between two blocking points.        *)
(***************************************************************************)
\* ServeHTTP returns at once: the record of a finished request is kept for
\* one state, in which nothing else happens, and then the request leaves
Returning == \E s \in Slots : req[s].pc = "done"

\* lines 178-201: count the request, reject a non-target, decide canCache
\* and look the hash up in the memory cache.  A request takes the first
\* free slot.
Receive(s, in) ==
    /\ req[s].pc = "idle"
    /\ ~Returning
    /\ \A t \in Slots : t < s => req[t].pc # "idle"
    /\ counters.req_received < MaxReq
    /\ LET r == [Idle EXCEPT !.host = in.host, !.method = in.method,
                             !.cc = in.cc, !.url = in.url]
       IN  IF ~hostMatchesTarget(in.host, Targets)
           THEN Advance(s, [r EXCEPT !.pc = "done",
                               !.resp = [NoResponse EXCEPT
                                            !.status = StatusBadGateway,
                                            !.complete = TRUE]],
                        "req_received" :> 1)
           ELSE LET q == [r EXCEPT !.hash = hashRequestURL(in.url),
                                   !.canCache = canCacheRequest(in)]
                    e == cacheLoadMemory(q.hash)
                IN  IF ~q.canCache
                    THEN Forward(s, q, "req_received" :> 1)
                    ELSE IF e # <<>>
                    THEN Advance(s, [Log(q, "memory.hit") EXCEPT
                                        !.pc = "done",
                                        !.resp = writeCachedResponse(q.resp,
                                            setXCacheInfo(e[1].hdr, "hit, memory", q.hash),
                                            e[1].body)],
                                 ("req_received" :> 1) @@ ("req_memory_hit" :> 1))
                    ELSE Advance(s, [Log(q, "memory.miss") EXCEPT !.pc = "local"],
                                 "req_received" :> 1)
    /\ cls' = IF hostMatchesTarget(in.host, Targets) THEN cls
              ELSE [cls EXCEPT !.rejected = @ + 1]
    /\ UNCHANGED <<mcache, expire, local, remote, tasks>>

\* LoadLocal without the return at line 209: the hit is served and the
\* remote cache is asked all the same
LoadLocalNoReturn(s, ioerr) ==
    /\ req[s].pc = "local"
    /\ ~Returning
    /\ ioerr => local[req[s].hash] # <<>>
    /\ LET r == req[s]
           f == cacheLoadLocal(r.hash, ioerr)
       IN  IF f # <<>>
           THEN Advance(s, [Log(r, "local.hit") EXCEPT
                               !.pc = "remote",
                               !.resp = writeCachedResponse(r.resp,
                                   setXCacheInfo(f[1].hdr, "hit, local", r.hash),
                                   f[1].body)],
                        "req_local_hit" :> 1)
           ELSE Advance(s, [Log(r, IF ioerr THEN "local.err" ELSE "local.miss")
                               EXCEPT !.pc = "remote"],
                        "req_local_miss" :> 1)
    /\ UNCHANGED <<mcache, expire, local, remote, tasks, cls>>

\* lines 203-211: the local cache (a failed read of a file that is not
\* there is the same miss)
LoadLocal(s, ioerr) ==
    /\ req[s].pc = "local"
    /\ ~Returning
    /\ ioerr => local[req[s].hash] # <<>>
    /\ LET r == req[s]
           f == cacheLoadLocal(r.hash, ioerr)
       IN  IF f # <<>>
           THEN Advance(s, [Log(r, "local.hit") EXCEPT
                               !.pc = "done",
                               !.resp = writeCachedResponse(r.resp,
                                   setXCacheInfo(f[1].hdr, "hit, local", r.hash),
                                   f[1].body)],
                        "req_local_hit" :> 1)
           ELSE Advance(s, [Log(r, IF ioerr THEN "local.err" ELSE "local.miss")
                               EXCEPT !.pc = "remote"],
                        "req_local_miss" :> 1)
    /\ UNCHANGED <<mcache, expire, local, remote, tasks, cls>>

\* LoadS3 that answers 502 when the GET of the object fails
LoadS3FailOnError(s, neterr) ==
    /\ req[s].pc = "remote"
    /\ ~Returning
    /\ neterr => remote[req[s].hash] # <<>>
    /\ LET r == req[s]
           o == cacheLoadS3(r.hash, neterr)
       IN  IF o # <<>>
           THEN Advance(s, [Log(r, "remote.hit") EXCEPT
                               !.pc = "fault", !.data = o[1]],
                        "req_fault_hit" :> 1)
           ELSE IF neterr
           THEN Advance(s, [Log(r, "remote.err") EXCEPT
                               !.pc = "done",
                               !.resp = [NoResponse EXCEPT
                                            !.status = StatusBadGateway,
                                            !.complete = TRUE]],
                        "req_fault_miss" :> 1)
           ELSE Forward(s, Log(r, "remote.miss"), "req_fault_miss" :> 1)
    /\ UNCHANGED <<mcache, expire, local, remote, tasks, cls>>

\* lines 213-215, 224-232: the remote cache (a failed GET of an object that
\* is not there is the same miss)
LoadS3(s, neterr) ==
    /\ req[s].pc = "remote"
    /\ ~Returning
    /\ neterr => remote[req[s].hash] # <<>>
    /\ LET r == req[s]
           o == cacheLoadS3(r.hash, neterr)
       IN  IF o # <<>>
           THEN Advance(s, [Log(r, "remote.hit") EXCEPT
                               !.pc = "fault", !.data = o[1]],
                        "req_fault_hit" :> 1)
           ELSE Forward(s, Log(r, IF neterr THEN "remote.err" ELSE "remote.miss"),
                        "req_fault_miss" :> 1)
    /\ UNCHANGED <<mcache, expire, local, remote, tasks, cls>>

\* FaultIn without the call of cacheStoreLocal at line 216
FaultInNoStore(s, stored) ==
    /\ req[s].pc = "fault"
    /\ ~Returning
    /\ Advance(s, [Log(req[s], IF stored THEN "local.store.ok"
                                         ELSE "local.store.err")
                      EXCEPT !.pc = "serve"],
               NoAdds)
    /\ UNCHANGED <<mcache, expire, local, remote, tasks, cls>>

\* lines 216-218: the object is faulted in to the local cache; a failure is
\* logged and nothing more
FaultIn(s, stored) ==
    /\ req[s].pc = "fault"
    /\ ~Returning
    /\ cacheStoreLocal(req[s].hash, req[s].data.hdr, req[s].data.body, stored)
    /\ Advance(s, [Log(req[s], IF stored THEN "local.store.ok"
                                         ELSE "local.store.err")
                      EXCEPT !.pc = "serve"],
               NoAdds)
    /\ UNCHANGED <<mcache, expire, remote, tasks, cls>>

\* lines 219-222: the faulted-in object is served
ServeFault(s) ==
    /\ req[s].pc = "serve"
    /\ ~Returning
    /\ Advance(s, [req[s] EXCEPT
                      !.pc = "done",
                      !.resp = writeCachedResponse(req[s].resp,
                          setXCacheInfo(req[s].data.hdr, "hit, remote", req[s].hash),
                          req[s].data.body)],
               NoAdds)
    /\ UNCHANGED <<mcache, expire, local, remote, tasks, cls>>

\* ModifyResponse that tests isVolatile before canCacheResponse
ModifyResponseVolatileFirst(hash, rsp) ==
    LET vol == canMemoryCache(rsp)
        dur == canCacheResponse(rsp)
    IN  IF ~dur /\ ~vol.ok
        THEN [rsp |-> [rsp EXCEPT !.hdr = setXCacheInfo(rsp.hdr, "fetch, uncached", "")],
              update |-> "none", adds |-> "rsp_not_cached" :> 1]
        ELSE IF vol.ok
        THEN [rsp |-> [rsp EXCEPT !.hdr = setXCacheInfo(rsp.hdr, "fetch, cached, volatile", hash)],
              update |-> "memory", adds |-> NoAdds]
        ELSE [rsp |-> [rsp EXCEPT !.hdr = setXCacheInfo(rsp.hdr, "fetch, cached", hash)],
              update |-> "durable", adds |-> NoAdds]

\* lines 236-283: proxy.ModifyResponse, the classification of the origin's
\* response rsp; the result is the response with its X-Cache set, the kind
\* of updateCache installed and the counters that go up
ModifyResponse(hash, rsp) ==
    LET vol == canMemoryCache(rsp)
        dur == canCacheResponse(rsp)
    IN  IF ~dur /\ ~vol.ok
        THEN [rsp |-> [rsp EXCEPT !.hdr = setXCacheInfo(rsp.hdr, "fetch, uncached", "")],
              update |-> "none", adds |-> "rsp_not_cached" :> 1]
        ELSE IF ~dur /\ vol.ok
        THEN [rsp |-> [rsp EXCEPT !.hdr = setXCacheInfo(rsp.hdr, "fetch, cached, volatile", hash)],
              update |-> "memory", adds |-> NoAdds]
        ELSE [rsp |-> [rsp EXCEPT !.hdr = setXCacheInfo(rsp.hdr, "fetch, cached", hash)],
              update |-> "durable", adds |-> NoAdds]

\* lines 234-235: ModifyResponse is installed only when canCache; without
\* it the response passes unchanged and updateCache stays the empty function
ProxyResponse(canCache, hash, rsp) ==
    IF canCache THEN ModifyResponse(hash, rsp)
    ELSE [rsp |-> rsp, update |-> "none", adds |-> NoAdds]

\* lines 233-235, 285: the origin answers with rsp and the header of the
\* response is written to the client
OriginResponds(s, rsp) ==
    /\ req[s].pc = "origin"
    /\ ~Returning
    /\ LET r == req[s]
           m == ProxyResponse(r.canCache, r.hash, rsp)
       IN  Advance(s, [r EXCEPT !.pc = "body", !.rsp = m.rsp,
                                !.update = m.update,
                                !.resp = [status |-> m.rsp.status,
                                          hdr |-> m.rsp.hdr, body |-> <<>>,
                                          complete |-> FALSE]],
                   m.adds)
    /\ UNCHANGED <<mcache, expire, local, remote, tasks, cls>>

\* line 285: the round trip fails; httputil.ReverseProxy answers 502 itself
\* and ModifyResponse is not called, so updateCache stays the empty function
OriginFails(s) ==
    /\ req[s].pc = "origin"
    /\ ~Returning
    /\ Advance(s, [req[s] EXCEPT !.pc = "done",
                       !.resp = [NoResponse EXCEPT !.status = StatusBadGateway,
                                                   !.complete = TRUE]],
               NoAdds)
    /\ UNCHANGED <<mcache, expire, local, remote, tasks, cls>>

\* lines 257-264: the updateCache of a volatile response
updateCacheMemory(s, r, body) ==
    /\ cacheStoreMemory(r.hash, r.rsp.hdr, body)
    /\ Advance(s, [Log(r, "memory.store") EXCEPT !.pc = "done"],
               "rsp_save_memory" :> 1)
    /\ UNCHANGED <<local, remote, tasks, cls>>

\* updateCacheDurable that starts the push to S3 after a failed local store
updateCacheDurablePushAnyway(s, r, body, stored) ==
    /\ cacheStoreLocal(r.hash, r.rsp.hdr, body, stored)
    /\ IF stored
       THEN Advance(s, [Log(r, "local.store.ok") EXCEPT
                           !.pc = "start", !.data = Entry(r.rsp.hdr, body)],
                    ("rsp_save" :> 1) @@ ("rsp_save_bytes" :> Len(body)))
       ELSE Advance(s, [Log(r, "local.store.err") EXCEPT
                           !.pc = "start", !.data = Entry(r.rsp.hdr, body)],
                    "rsp_save_error" :> 1)
    /\ UNCHANGED <<mcache, expire, remote, tasks, cls>>

\* lines 267-280: the updateCache of a durable response, up to s.start
updateCacheDurable(s, r, body, stored) ==
    /\ cacheStoreLocal(r.hash, r.rsp.hdr, body, stored)
    /\ IF stored
       THEN Advance(s, [Log(r, "local.store.ok") EXCEPT
                           !.pc = "start", !.data = Entry(r.rsp.hdr, body)],
                    ("rsp_save" :> 1) @@ ("rsp_save_bytes" :> Len(body)))
       ELSE Advance(s, [Log(r, "local.store.err") EXCEPT !.pc = "done"],
                    "rsp_save_error" :> 1)
    /\ UNCHANGED <<mcache, expire, remote, tasks, cls>>

\* line 286: updateCache(), the function ModifyResponse left behind
updateCache(s, r, buf, stored) ==
    IF r.update = "memory" THEN updateCacheMemory(s, r, buf)
    ELSE IF r.update = "durable" THEN updateCacheDurable(s, r, buf, stored)
    ELSE /\ Advance(s, [r EXCEPT !.pc = "done"], NoAdds)
         /\ UNCHANGED <<mcache, expire, local, remote, tasks, cls>>

\* lines 247-253, 285-286: proxy.ServeHTTP copies the body to the client, n
\* bytes of it pass the tee into buf, and updateCache runs when ServeHTTP
\* returns.  A copy that ends early (the client is gone, the origin's body
\* fails) makes httputil.ReverseProxy panic with http.ErrAbortHandler when
\* the request runs under an http.Server, which ends the handler before
\* line 286; a request without the server's context value has the copy
\* error suppressed and proxy.ServeHTTP returns.  A copy that ends early
\* ends one byte short of the body.
ServeBody(s, n, underServer, stored) ==
    /\ req[s].pc = "body"
    /\ ~Returning
    /\ n \in {Len(req[s].rsp.body) - 1, Len(req[s].rsp.body)}
    /\ LET full == n = Len(req[s].rsp.body)
           buf  == SubSeq(req[s].rsp.body, 1, n)
           r    == [req[s] EXCEPT !.resp.body = buf, !.resp.complete = full,
                                  !.underServer = full \/ underServer]
       IN  IF ~full /\ underServer
           THEN /\ Advance(s, [Log(r, "abort") EXCEPT !.pc = "done"], NoAdds)
                /\ UNCHANGED <<mcache, expire, local, remote, tasks, cls>>
           ELSE updateCache(s, r, buf, stored)

\* StartPush that never starts the task it was given
StartPushDropped(s) ==
    /\ req[s].pc = "start"
    /\ ~Returning
    /\ BagCardinality(tasks) < NumCPU
    /\ tasks' = tasks
    /\ Advance(s, [Log(req[s], "remote.submit") EXCEPT !.pc = "done"], NoAdds)
    /\ UNCHANGED <<mcache, expire, local, remote, cls>>

\* StartPush that starts the task without waiting for room in the group
StartPushUnlimited(s) ==
    /\ req[s].pc = "start"
    /\ ~Returning
    /\ tasks' = tasks (+) SetToBag({[hash |-> req[s].hash, entry |-> req[s].data]})
    /\ Advance(s, [Log(req[s], "remote.submit") EXCEPT !.pc = "done"], NoAdds)
    /\ UNCHANGED <<mcache, expire, local, remote, cls>>

\* line 277: s.start waits for a free slot of the task group, then starts
\* the task cacheStoreS3 built from the headers and the body
StartPush(s) ==
    /\ req[s].pc = "start"
    /\ ~Returning
    /\ BagCardinality(tasks) < NumCPU
    /\ tasks' = tasks (+) SetToBag({[hash |-> req[s].hash, entry |-> req[s].data]})
    /\ Advance(s, [Log(req[s], "remote.submit") EXCEPT !.pc = "done"], NoAdds)
    /\ UNCHANGED <<mcache, expire, local, remote, cls>>

\* the task of cacheStoreS3 runs: a PUT of the object, which may fail
RunPush(t, ok) ==
    /\ BagIn(t, tasks)
    /\ ~Returning
    /\ tasks' = tasks (-) SetToBag({t})
    /\ IF ok
       THEN /\ remote' = [remote EXCEPT ![t.hash] = <<t.entry>>]
            /\ counters' = Add(counters, ("rsp_push" :> 1) @@
                                         ("rsp_push_bytes" :> EncodedLen(t.entry)))
       ELSE /\ remote' = remote
            /\ counters' = Add(counters, "rsp_push_error" :> 1)
    /\ UNCHANGED <<req, mcache, expire, local, cls>>

\* ServeHTTP has returned and the response is with the client
Finish(s) ==
    /\ req[s].pc = "done"
    /\ req' = [req EXCEPT ![s] = Idle]
    /\ UNCHANGED <<mcache, expire, local, remote, tasks, counters, cls>>

\* Expire that leaves the entry in the cache
ExpireKeepsEntry(t) ==
    /\ t \in expire
    /\ ~Returning
    /\ expire' = expire \ {t}
    /\ mcache' = mcache
    /\ UNCHANGED <<req, local, remote, tasks, counters, cls>>

\* an expiration timer fires: the entry it was scheduled for is removed,
\* and a timer whose entry was replaced does nothing
Expire(t) ==
    /\ t \in expire
    /\ ~Returning
    /\ expire' = expire \ {t}
    /\ mcache' = IF mcache[t.hash] # <<>> /\ mcache[t.hash][1].gen = t.gen
                 THEN [mcache EXCEPT ![t.hash] = <<>>]
                 ELSE mcache
    /\ UNCHANGED <<req, local, remote, tasks, counters, cls>>

\* the cache directory belongs to the file system: a file of it is removed
\* from outside (the server itself never deletes one)
LocalFileRemoved(h) ==
    /\ local[h] # <<>>
    /\ ~Returning
    /\ local' = [local EXCEPT ![h] = <<>>]
    /\ UNCHANGED <<req, mcache, expire, remote, tasks, counters, cls>>

Next ==
    \/ \E s \in Slots, in \in Requests : Receive(s, in)
    \/ \E s \in Slots, ioerr \in BOOLEAN : LoadLocal(s, ioerr)
    \/ \E s \in Slots, neterr \in BOOLEAN : LoadS3(s, neterr)
    \/ \E s \in Slots, stored \in BOOLEAN : FaultIn(s, stored)
    \/ \E s \in Slots : ServeFault(s)
    \/ \E s \in Slots, rsp \in OriginResponses : OriginResponds(s, rsp)
    \/ \E s \in Slots : OriginFails(s)
    \/ \E s \in Slots, n \in 0..2, underServer \in BOOLEAN, stored \in BOOLEAN :
          ServeBody(s, n, underServer, stored)
    \/ \E s \in Slots : StartPush(s)
    \/ \E t \in BagToSet(tasks), ok \in BOOLEAN : RunPush(t, ok)
    \/ \E t \in expire : Expire(t)
    \/ \E h \in Hashes : LocalFileRemoved(h)
    \/ \E s \in Slots : Finish(s)


Spec == Init /\ [][Next]_vars

\* the scheduler runs every goroutine that can run: a started task runs to
\* its end, a caller waiting in s.start proceeds when the group has room,
\* and a handler that has finished returns
Fairness ==
    /\ WF_vars(\E t \in BagToSet(tasks), ok \in BOOLEAN : RunPush(t, ok))
    /\ WF_vars(\E s \in Slots : StartPush(s))
    /\ WF_vars(\E s \in Slots : Finish(s))

SpecLive == Spec /\ Fairness

(***************************************************************************)
(* The classifiers on their own: a response with a status and a header     *)
(* made of directives is classified.                                       *)
(***************************************************************************)
ClassifierInit ==
    /\ ServerInit
    /\ cls \in { [ClsOff EXCEPT !.pc = "in", !.status = st, !.dirs = ds] :
                    st \in ClassifierStatuses, ds \in CCHeaders }

Classify ==
    /\ cls.pc = "in"
    /\ LET rsp == [status |-> cls.status, cc |-> RenderHeader(cls.dirs)]
       IN  cls' = [cls EXCEPT !.pc = "out",
                              !.durable = canCacheResponse(rsp),
                              !.volatile = canMemoryCache(rsp).ok,
                              !.maxAge = canMemoryCache(rsp).maxAge]
    /\ UNCHANGED <<req, mcache, expire, local, remote, tasks, counters>>

SpecClassifier == ClassifierInit /\ [][Classify]_vars

(***************************************************************************)
(* Vocabulary of the properties.                                           *)
(***************************************************************************)
Dispositions ==
    { "hit, memory", "hit, local", "hit, remote", "fetch, cached",
      "fetch, cached, volatile", "fetch, uncached" }

Active(s) == req[s].pc # "idle"
\* the operations the request in s has performed
Did(s, op) == \E i \in 1..Len(req[s].ops) : req[s].ops[i] = op
\* the request's Cache-Control names the directive no-store
ReqNoStore(s) == \E i \in 1..Len(req[s].cc) : req[s].cc[i] = "no-store"
ToTarget(s) == Active(s) /\ req[s].host \in Targets
CacheableReq(s) == ToTarget(s) /\ req[s].method = "GET" /\ ~ReqNoStore(s)

Hits == {"memory.hit", "local.hit", "remote.hit"}
LocalMisses == {"local.miss", "local.err"}
RemoteMisses == {"remote.miss", "remote.err"}
IsLookup(op) == op \in Hits \cup {"memory.miss"} \cup LocalMisses \cup RemoteMisses
Stores == {"memory.store", "local.store.ok", "local.store.err", "remote.submit"}
DidStore(s) == \E i \in 1..Len(req[s].ops) : req[s].ops[i] \in Stores
\* the origin answered the request in s
Answered(s) == req[s].rsp.status # 0
\* the X-Cache value of a hit
HitToken(op) ==
    CASE op = "memory.hit" -> "hit, memory"
      [] op = "local.hit" -> "hit, local"
      [] op = "remote.hit" -> "hit, remote"

(***************************************************************************)
(* C1.  A cacheable request to a target consults memory, local, remote in  *)
(* this order and stops at the first hit, which is what it serves; the     *)
(* origin is contacted, and req_forward counted, exactly when all three    *)
(* have missed.                                                            *)
(***************************************************************************)
C1_TierOrder ==
    \A s \in Slots : CacheableReq(s) =>
        LET ops == req[s].ops
            lk  == SelectSeq(ops, IsLookup)
            n   == Len(lk)
        IN  /\ n \in 1..3
            /\ SubSeq(ops, 1, n) = lk
            /\ lk[1] \in {"memory.hit", "memory.miss"}
            /\ n >= 2 => lk[1] = "memory.miss" /\ lk[2] \in LocalMisses \cup {"local.hit"}
            /\ n >= 3 => lk[2] \in LocalMisses /\ lk[3] \in RemoteMisses \cup {"remote.hit"}
            /\ Did(s, "origin") <=> (n = 3 /\ lk[3] \in RemoteMisses)
            /\ req[s].inc.req_forward = (IF Did(s, "origin") THEN 1 ELSE 0)
            /\ lk[n] \in Hits => ~Answered(s) /\ req[s].pc \in {"fault", "serve", "done"}
            /\ (req[s].pc = "done" /\ lk[n] \in Hits) =>
                   req[s].resp.hdr.xcache = <<HitToken(lk[n])>>
            /\ (\E i \in 1..Len(req[s].resp.hdr.xcache) :
                   req[s].resp.hdr.xcache[i] \in {"hit, memory", "hit, local", "hit, remote"})
                   => lk[n] \in Hits

\* a request that missed memory and local and was served from remote
C1_Witness ==
    \E s \in Slots :
        /\ CacheableReq(s) /\ req[s].pc = "done"
        /\ Len(req[s].ops) >= 3
        /\ SubSeq(req[s].ops, 1, 3) = <<"memory.miss", "local.miss", "remote.hit">>
        /\ req[s].resp.hdr.xcache = <<"hit, remote">>

(***************************************************************************)
(* C2.  Every GET to a target that is answered (from a tier or by the      *)
(* origin) carries exactly one X-Cache header, with a disposition value.   *)
(***************************************************************************)
C2_OneXCache ==
    \A s \in Slots :
        (/\ ToTarget(s) /\ req[s].method = "GET"
         /\ req[s].resp.status # 0
         /\ Answered(s) \/ \E op \in Hits : Did(s, op))
        => /\ Len(req[s].resp.hdr.xcache) = 1
           /\ req[s].resp.hdr.xcache[1] \in Dispositions

(***************************************************************************)
(* C3.  A request that is not cacheable (not a GET, or with no-store) is   *)
(* only forwarded: it looks nothing up and stores nothing, whatever the    *)
(* origin answers, and no step of it changes a tier.                       *)
(***************************************************************************)
NotCacheableReq(s) == ToTarget(s) /\ (req[s].method # "GET" \/ ReqNoStore(s))

C3_State ==
    \A s \in Slots : NotCacheableReq(s) =>
        /\ req[s].ops # <<>> /\ req[s].ops[1] = "origin"
        /\ \A i \in 1..Len(req[s].ops) : req[s].ops[i] \in {"origin", "abort"}
        /\ req[s].update = "none"
        /\ \A c \in {"req_memory_hit", "req_local_hit", "req_local_miss",
                     "req_fault_hit", "req_fault_miss", "rsp_save",
                     "rsp_save_memory", "rsp_save_error", "rsp_save_bytes"} :
               req[s].inc[c] = 0

C3_Step ==
    \A s \in Slots :
        (req'[s] # req[s] /\ req'[s].pc # "idle"
         /\ req'[s].host \in Targets
         /\ (req'[s].method # "GET"
             \/ \E i \in 1..Len(req'[s].cc) : req'[s].cc[i] = "no-store"))
        => UNCHANGED <<mcache, expire, local, remote, tasks>>

C3_NoStoreBypassesCache == []C3_State /\ [][C3_Step]_vars

\* a GET with no-store whose origin answered 200 with an immutable and a
\* short-lived response body, served in full
C3_Witness ==
    \E s \in Slots :
        /\ NotCacheableReq(s) /\ req[s].method = "GET" /\ req[s].pc = "done"
        /\ canCacheResponse(req[s].rsp) /\ canMemoryCache(req[s].rsp).ok
        /\ req[s].resp.complete

(***************************************************************************)
(* C4.  A fetched response is routed by its class: volatile and not        *)
(* durable goes to memory only, durable goes to local and from there to    *)
(* remote and never to memory (also when it is volatile as well), neither  *)
(* goes nowhere; what a tier holds carries the disposition of its class.   *)
(***************************************************************************)
DurableStores == {"local.store.ok", "local.store.err", "remote.submit"}
\* the classes of the origin's responses, by status and Cache-Control
ResponseKey(rsp) == [status |-> rsp.status, cc |-> rsp.cc]
ClassOf ==
    [k \in { ResponseKey(o) : o \in OriginResponses } |->
        [dur |-> canCacheResponse(k), vol |-> canMemoryCache(k).ok]]
Durable(rsp) == ClassOf[ResponseKey(rsp)].dur
Volatile(rsp) == ClassOf[ResponseKey(rsp)].vol
Aborted(s) == Did(s, "abort")

C4_RoutingByClass ==
    /\ \A s \in Slots : (CacheableReq(s) /\ Answered(s)) =>
          LET dur == Durable(req[s].rsp)
              vol == Volatile(req[s].rsp)
              x   == req[s].resp.hdr.xcache
              finished == req[s].pc = "done" /\ ~Aborted(s)
          IN  /\ (vol /\ ~dur) =>
                    /\ x = <<"fetch, cached, volatile">>
                    /\ \A op \in DurableStores : ~Did(s, op)
                    /\ finished => Did(s, "memory.store")
              /\ dur =>
                    /\ x = <<"fetch, cached">>
                    /\ ~Did(s, "memory.store")
                    /\ finished => \/ Did(s, "local.store.err")
                                   \/ Did(s, "local.store.ok") /\ Did(s, "remote.submit")
              /\ (~vol /\ ~dur) => x = <<"fetch, uncached">> /\ ~DidStore(s)
    /\ \A s \in Slots : Did(s, "memory.store") =>
          /\ Answered(s) /\ ~Durable(req[s].rsp)
          /\ Volatile(req[s].rsp)
          /\ \A op \in Hits : ~Did(s, op)
    /\ \A h \in Hashes :
          /\ mcache[h] # <<>> => mcache[h][1].hdr.xcache = <<"fetch, cached, volatile">>
          /\ local[h] # <<>> => local[h][1].hdr.xcache = <<"fetch, cached">>
          /\ remote[h] # <<>> => remote[h][1].hdr.xcache = <<"fetch, cached">>
    /\ \A t \in BagToSet(tasks) : t.entry.hdr.xcache = <<"fetch, cached">>

\* a response that is immutable and has a max-age of 30 seconds was stored
\* in local and handed to the remote push
C4_Witness ==
    \E s \in Slots :
        /\ CacheableReq(s) /\ req[s].pc = "done"
        /\ canCacheResponse(req[s].rsp) /\ canMemoryCache(req[s].rsp).ok
        /\ Did(s, "local.store.ok") /\ Did(s, "remote.submit")
        /\ req[s].resp.hdr.xcache = <<"fetch, cached">>

(***************************************************************************)
(* C5.  A push to remote is submitted only right after the request's own   *)
(* successful local store, for the same hash and object; a failed local    *)
(* store counts rsp_save_error once, submits nothing, leaves rsp_save,     *)
(* rsp_save_bytes and the push counters alone and does not touch the       *)
(* response; a request served by fault-in never writes to remote.          *)
(***************************************************************************)
LastOp(r) == IF r.ops = <<>> THEN "" ELSE r.ops[Len(r.ops)]
\* the slot s performs op in this step
Performs(s, op) ==
    /\ Len(req'[s].ops) = Len(req[s].ops) + 1
    /\ LastOp(req'[s]) = op

C5_State ==
    /\ \A s \in Slots :
          /\ \A i \in 1..Len(req[s].ops) : req[s].ops[i] = "remote.submit" =>
                /\ i > 1 /\ req[s].ops[i - 1] = "local.store.ok"
                /\ Did(s, "origin")
          /\ req[s].pc = "start" =>
                /\ LastOp(req[s]) = "local.store.ok"
                /\ req[s].data = Entry(req[s].rsp.hdr, req[s].resp.body)
          /\ (Did(s, "origin") /\ Did(s, "local.store.err")) =>
                /\ ~Did(s, "remote.submit") /\ req[s].pc = "done"
                /\ req[s].inc.rsp_save_error = 1
                /\ req[s].inc.rsp_save = 0 /\ req[s].inc.rsp_save_bytes = 0
                /\ req[s].resp.status = req[s].rsp.status
                /\ req[s].resp.hdr = req[s].rsp.hdr
          /\ Did(s, "remote.hit") => ~Did(s, "remote.submit") /\ req[s].pc # "start"
    /\ counters.rsp_save =
          counters.rsp_push + counters.rsp_push_error + BagCardinality(tasks)
          + Cardinality({s \in Slots : req[s].pc = "start"})

C5_Step ==
    /\ \A s \in Slots :
          /\ (Performs(s, "local.store.err") /\ Did(s, "origin")) =>
                /\ counters' = [counters EXCEPT !.rsp_save_error = @ + 1]
                /\ UNCHANGED <<local, remote, tasks>>
                /\ req'[s].resp.status = req[s].resp.status
                /\ req'[s].resp.hdr = req[s].resp.hdr
          /\ (req'[s] # req[s] /\ Did(s, "remote.hit")) => UNCHANGED <<remote, tasks>>
    /\ tasks' # tasks =>
          \/ \E s \in Slots :
                /\ req[s].pc = "start" /\ LastOp(req[s]) = "local.store.ok"
                /\ tasks' = tasks (+) SetToBag({[hash |-> req[s].hash,
                                                  entry |-> req[s].data]})
                /\ remote' = remote
          \/ \E t \in BagToSet(tasks) :
                /\ tasks' = tasks (-) SetToBag({t})
                /\ remote' \in {remote, [remote EXCEPT ![t.hash] = <<t.entry>>]}
    /\ remote' # remote => tasks' # tasks

C5_RemoteAfterLocal == []C5_State /\ [][C5_Step]_vars

\* a push has reached remote, and a request whose local store failed is done
C5_Witness ==
    /\ counters.rsp_push >= 1
    /\ \E s \in Slots :
          /\ req[s].pc = "done" /\ Did(s, "origin") /\ Did(s, "local.store.err")
          /\ req[s].resp.complete

(***************************************************************************)
(* C6.  A request whose body was captured only in part stores nothing, in  *)
(* no tier; every body a tier holds is the whole body of an origin         *)
(* response.                                                               *)
(***************************************************************************)
C6_NoPartialStore ==
    /\ \A s \in Slots :
          (Answered(s) /\ req[s].pc \in {"start", "done"} /\ ~req[s].resp.complete)
          => \A op \in {"memory.store", "local.store.ok", "remote.submit"} : ~Did(s, op)
    /\ \A h \in Hashes :
          /\ mcache[h] # <<>> => mcache[h][1].body \in Bodies
          /\ local[h] # <<>> => local[h][1].body \in Bodies
          /\ remote[h] # <<>> => remote[h][1].body \in Bodies
    /\ \A t \in BagToSet(tasks) : t.entry.body \in Bodies

(***************************************************************************)
(* C7.  Fault-in: after memory and local missed and remote hit, the object *)
(* is written to local before anything is written to the client; the       *)
(* request is served as "hit, remote" whether or not that write            *)
(* succeeded, counts req_local_miss and req_fault_hit once each and is not *)
(* forwarded.                                                              *)
(***************************************************************************)
C7_State ==
    \A s \in Slots : Did(s, "remote.hit") =>
        LET r == req[s]
        IN  /\ Len(r.ops) >= 3
            /\ r.ops[1] = "memory.miss" /\ r.ops[2] \in LocalMisses
            /\ r.ops[3] = "remote.hit"
            /\ r.inc.req_local_miss = 1 /\ r.inc.req_fault_hit = 1
            /\ r.inc.req_forward = 0 /\ r.inc.req_fault_miss = 0
            /\ r.pc \in {"fault", "serve", "done"}
            /\ r.pc = "fault" <=> Len(r.ops) = 3
            /\ r.pc # "fault" =>
                  Len(r.ops) = 4 /\ r.ops[4] \in {"local.store.ok", "local.store.err"}
            /\ r.pc # "done" => r.resp = NoResponse
            /\ r.pc = "done" =>
                  /\ r.resp.status = StatusOK /\ r.resp.complete
                  /\ r.resp.hdr = [xcache |-> <<"hit, remote">>, id |-> r.hash]
                  /\ r.resp.body = r.data.body

C7_Step ==
    \A s \in Slots :
        /\ Performs(s, "remote.hit") => req'[s].data = remote[req[s].hash][1]
        /\ (Performs(s, "local.store.ok") /\ Did(s, "remote.hit")) =>
              /\ local' = [local EXCEPT ![req[s].hash] = <<req[s].data>>]
              /\ req'[s].resp = NoResponse
        /\ (Performs(s, "local.store.err") /\ Did(s, "remote.hit")) =>
              /\ local' = local
              /\ req'[s].pc = "serve"

C7_FaultIn == []C7_State /\ [][C7_Step]_vars

\* a request served from remote with the object back in local, the local
\* file having been gone
C7_Witness ==
    \E s \in Slots :
        /\ req[s].pc = "done"
        /\ req[s].ops = <<"memory.miss", "local.miss", "remote.hit", "local.store.ok">>
        /\ local[req[s].hash] = <<req[s].data>>
        /\ req[s].resp.hdr.xcache = <<"hit, remote">>

(***************************************************************************)
(* C8.  A request whose host is not a target is answered 502 and does      *)
(* nothing but count req_received: no lookup, no store, no forward, no     *)
(* other counter, no change of a tier.                                     *)
(***************************************************************************)
C8_State ==
    \A s \in Slots : (Active(s) /\ req[s].host \notin Targets) =>
        /\ req[s].pc = "done"
        /\ req[s].resp.status = StatusBadGateway
        /\ req[s].resp.hdr = NoHeader
        /\ req[s].ops = <<>>
        /\ req[s].inc = [ZeroCounters EXCEPT !.req_received = 1]

C8_Step ==
    \A s \in Slots :
        (req[s].pc = "idle" /\ req'[s].pc # "idle" /\ req'[s].host \notin Targets)
        => /\ counters' = [counters EXCEPT !.req_received = @ + 1]
           /\ UNCHANGED <<mcache, expire, local, remote, tasks>>

C8_RejectedTarget == []C8_State /\ [][C8_Step]_vars

\* a rejected request, with objects in the tiers it did not look at
C8_Witness ==
    \E s \in Slots :
        /\ req[s].pc = "done" /\ req[s].host \notin Targets
        /\ req[s].resp.status = StatusBadGateway
        /\ local[hashRequestURL(req[s].url)] # <<>>

(***************************************************************************)
(* C9.  An error of a tier is a miss of that tier: the next tier is asked, *)
(* then the origin, with the counters of a miss; a request to a target     *)
(* fails only when the origin does.                                        *)
(***************************************************************************)
C9_ErrorIsMiss ==
    \A s \in Slots :
        LET r == req[s]
        IN  /\ \A i \in 1..Len(r.ops) :
                  /\ r.ops[i] = "local.err" =>
                        /\ r.inc.req_local_miss = 1 /\ r.inc.req_local_hit = 0
                        /\ IF i = Len(r.ops) THEN r.pc = "remote"
                           ELSE r.ops[i + 1] \in RemoteMisses \cup {"remote.hit"}
                  /\ r.ops[i] = "remote.err" =>
                        /\ r.inc.req_fault_miss = 1 /\ r.inc.req_fault_hit = 0
                        /\ r.inc.req_forward = 1
                        /\ i < Len(r.ops) /\ r.ops[i + 1] = "origin"
            /\ (ToTarget(s) /\ r.pc = "done") =>
                  \/ /\ \E op \in Hits : Did(s, op)
                     /\ r.resp.status = StatusOK /\ r.resp.complete
                  \/ /\ Did(s, "origin") /\ Answered(s)
                     /\ r.resp.status = r.rsp.status
                  \/ /\ Did(s, "origin") /\ ~Answered(s)
                     /\ r.resp.status = StatusBadGateway

\* a request that met an unreadable local file and a failing remote GET and
\* was answered in full by the origin
C9_Witness ==
    \E s \in Slots :
        /\ req[s].pc = "done"
        /\ Did(s, "local.err") /\ Did(s, "remote.err")
        /\ req[s].resp.status = StatusOK /\ req[s].resp.complete

(***************************************************************************)
(* C10.  canCacheResponse is true exactly when the status is 200, no-store *)
(* is absent, and immutable is present or must-revalidate is present with  *)
(* a max-age of more than 60 days.  The max-age is the number of seconds   *)
(* of the last max-age directive that strconv.Atoi accepts.                *)
(***************************************************************************)
HasDirective(ds, name) == \E i \in 1..Len(ds) : ds[i].name = name

RECURSIVE MaxAgeSeconds(_, _)
\* the seconds of the last accepted max-age of ds, as a number, from sec
MaxAgeSeconds(ds, sec) ==
    IF ds = <<>> THEN sec
    ELSE LET d == Head(ds)
             a == Atoi(d.val)
         IN  MaxAgeSeconds(Tail(ds),
                 IF d.name = "max-age" /\ d.eq /\ ~a.err THEN a ELSE sec)

SixtyDaysSeconds == MulAdd(MulAdd(MulAdd(<<60>>, 24, 0), 60, 0), 60, 0)

DurableRule(status, ds) ==
    LET sec == MaxAgeSeconds(ds, [err |-> FALSE, neg |-> FALSE, mag |-> <<>>])
    IN  /\ status = StatusOK
        /\ ~HasDirective(ds, "no-store")
        /\ \/ HasDirective(ds, "immutable")
           \/ /\ HasDirective(ds, "must-revalidate")
              /\ ~sec.neg /\ Cmp(Normalise(sec.mag), Normalise(SixtyDaysSeconds)) > 0

C10_DurableIff ==
    cls.pc = "out" => (cls.durable <=> DurableRule(cls.status, cls.dirs))

(***************************************************************************)
(* C11.  Write-behind: every successful local store of a fetched response  *)
(* is in the end followed by the completion of its push to remote, and a   *)
(* completed push counts exactly one of rsp_push (with rsp_push_bytes) and *)
(* rsp_push_error; the push completes also after the request has returned. *)
(***************************************************************************)
PushesDone == counters.rsp_push + counters.rsp_push_error

C11_Step ==
    (BagCardinality(tasks') < BagCardinality(tasks)) =>
        \E t \in BagToSet(tasks) :
            /\ tasks' = tasks (-) SetToBag({t})
            /\ UNCHANGED req
            /\ \/ /\ counters' = [counters EXCEPT
                                     !.rsp_push = @ + 1,
                                     !.rsp_push_bytes = @ + EncodedLen(t.entry)]
                  /\ remote' = [remote EXCEPT ![t.hash] = <<t.entry>>]
               \/ /\ counters' = [counters EXCEPT !.rsp_push_error = @ + 1]
                  /\ remote' = remote

C11_WriteBehind ==
    /\ \A n \in 1..(MaxReq + 1) : (counters.rsp_save >= n) ~> (PushesDone >= n)
    /\ [][C11_Step]_vars

\* every request has returned and the push of the one that stored has
\* completed after it
C11_Witness ==
    /\ \A s \in Slots : req[s].pc = "idle"
    /\ counters.rsp_save = 1 /\ counters.rsp_push = 1
    /\ counters.req_received = 1
    /\ \E h \in Hashes : remote[h] # <<>>

(***************************************************************************)
(* C12.  The pushes running at the same time are never more than the       *)
(* limit of the task group (the number of CPUs); a request that submits a  *)
(* push while the group is full waits, and starts it only once a running   *)
(* push has finished.                                                      *)
(***************************************************************************)
Running == BagCardinality(tasks)

C12_Step ==
    /\ \A s \in Slots :
          (req[s].pc = "start" /\ Running >= NumCPU) =>
              /\ req'[s] = req[s]
              /\ BagCardinality(tasks') <= Running
    /\ BagCardinality(tasks') > Running =>
          /\ Running < NumCPU
          /\ BagCardinality(tasks') = Running + 1

C12_TaskLimit == [](Running <= NumCPU) /\ [][C12_Step]_vars

\* the group is full and a request waits in s.start with its push
C12_Witness ==
    /\ Running = NumCPU
    /\ \E s \in Slots : req[s].pc = "start"

(***************************************************************************)
(* C13.  A hash that is present in more than one tier has the same body    *)
(* in each of them, in every state; with no push left to run, the local    *)
(* file and the remote object of a hash hold the same body.                *)
(***************************************************************************)
\* the bodies the tiers hold for h
TierBodies(h) ==
    { mcache[h][i].body : i \in 1..Len(mcache[h]) }
    \cup { local[h][i].body : i \in 1..Len(local[h]) }
    \cup { remote[h][i].body : i \in 1..Len(remote[h]) }

C13_BodiesEqual == \A h \in Hashes : Cardinality(TierBodies(h)) <= 1

(***************************************************************************)
(* The memory cache on its own: s.mcache, an LRU cache with a byte budget  *)
(* and entrySize as the size of an entry, and the timers of s.expire.      *)
(* Here mcache is the list of the entries held, the most recently used     *)
(* first.  The budget is small, as are the entries, so that evictions      *)
(* happen.                                                                 *)
(***************************************************************************)
\* the byte budget of the cache (10 << 20 in Server.init)
MemBudget == 3
\* number of Store operations in one behaviour
MaxStores == 3

MemKeys == {"h1", "h2", "h3"}
Fill(n) == [i \in 1..n |-> "a"]
\* bodies of a small size, of nearly the budget and of more than the budget
MemBodies == { Fill(n) : n \in {1, MemBudget - 1, MemBudget + 1} }

\* entrySize: the bytes of the body and of the headers
entrySize(e) == Len(e.body) + Len(e.hdr.xcache) + (IF e.hdr.id # "" THEN 1 ELSE 0)

RECURSIVE SizeOf(_)
\* the bytes the entries of the list es account for
SizeOf(es) == IF es = <<>> THEN 0 ELSE entrySize(Head(es)) + SizeOf(Tail(es))

Without(es, key) == SelectSeq(es, LAMBDA e : e.key # key)

RECURSIVE Evict(_, _)
\* entries are dropped from the least recently used end until es fits room
Evict(es, room) ==
    IF SizeOf(es) <= room THEN es ELSE Evict(SubSeq(es, 1, Len(es) - 1), room)

\* lruPut that makes no room
lruPutNoEvict(es, e) ==
    IF entrySize(e) > MemBudget THEN es
    ELSE <<e>> \o Without(es, e.key)

\* cache.Put: an entry larger than the budget is not stored; otherwise the
\* entry replaces the one under its key, after room was made for it
lruPut(es, e) ==
    IF entrySize(e) > MemBudget THEN es
    ELSE <<e>> \o Evict(Without(es, e.key), MemBudget - entrySize(e))

\* cache.Get: a hit moves the entry to the most recently used end
lruGet(es, key) ==
    IF \E i \in 1..Len(es) : es[i].key = key
    THEN SelectSeq(es, LAMBDA e : e.key = key) \o Without(es, key)
    ELSE es

MemoryInit ==
    /\ mcache = <<>>
    /\ expire = {}
    /\ counters = ZeroCounters
    /\ req = [s \in Slots |-> Idle]
    /\ local = [h \in Hashes |-> <<>>]
    /\ remote = [h \in Hashes |-> <<>>]
    /\ tasks = EmptyBag
    /\ cls = ClsOff

\* cacheStoreMemory: the entry is put in the cache and its expiration is
\* scheduled
MemStore(key, body) ==
    /\ counters.rsp_save_memory < MaxStores
    /\ LET gen == counters.rsp_save_memory + 1
           e   == [key |-> key, hdr |-> NoHeader, body |-> body, gen |-> gen]
       IN  /\ mcache' = lruPut(mcache, e)
           /\ expire' = expire \cup {[hash |-> key, gen |-> gen]}
           /\ cls' = [pc |-> "store", key |-> key, entry |-> e]
    /\ counters' = Add(counters, "rsp_save_memory" :> 1)
    /\ UNCHANGED <<req, local, remote, tasks>>

\* cacheLoadMemory: a lookup, which counts as a use of the entry it finds
MemLoad(key) ==
    /\ mcache' = lruGet(mcache, key)
    /\ cls' = [pc |-> "load", key |-> key,
               entry |-> SelectSeq(mcache, LAMBDA e : e.key = key)]
    /\ UNCHANGED <<req, expire, local, remote, tasks, counters>>

\* MemExpire that removes whatever entry its key has
MemExpireAnyEntry(t) ==
    /\ t \in expire
    /\ expire' = expire \ {t}
    /\ mcache' = SelectSeq(mcache, LAMBDA e : e.key # t.hash)
    /\ cls' = [pc |-> "expire", key |-> t.hash, gen |-> t.gen]
    /\ UNCHANGED <<req, local, remote, tasks, counters>>

\* a timer fires: the entry it was scheduled for is removed, if it is the
\* one still held
MemExpire(t) ==
    /\ t \in expire
    /\ expire' = expire \ {t}
    /\ mcache' = SelectSeq(mcache, LAMBDA e : ~(e.key = t.hash /\ e.gen = t.gen))
    /\ cls' = [pc |-> "expire", key |-> t.hash, gen |-> t.gen]
    /\ UNCHANGED <<req, local, remote, tasks, counters>>

MemoryNext ==
    \/ \E key \in MemKeys, body \in MemBodies : MemStore(key, body)
    \/ \E key \in MemKeys : MemLoad(key)
    \/ \E t \in expire : MemExpire(t)

SpecMemory == MemoryInit /\ [][MemoryNext]_vars

(***************************************************************************)
(* C14.  The entries the memory cache holds never account for more than    *)
(* the budget.  A Store evicts the least recently used entries, and only   *)
(* as many as it must; a Load that hits makes its entry the most recently  *)
(* used; a Store of an entry larger than the budget changes nothing.       *)
(***************************************************************************)
KeysOf(es) == { es[i].key : i \in 1..Len(es) }
\* es is rest with entries dropped from its least recently used end
IsPrefix(es, rest) == Len(es) <= Len(rest) /\ es = SubSeq(rest, 1, Len(es))

C14_State ==
    /\ SizeOf(mcache) <= MemBudget
    /\ \A i, j \in 1..Len(mcache) : mcache[i].key = mcache[j].key => i = j

\* the step is the operation op of the memory cache
MemOp(op) == cls' # cls /\ cls'.pc = op

C14_Step ==
    /\ MemOp("store") =>
          LET e == cls'.entry
              rest == Without(mcache, e.key)
          IN  IF entrySize(e) > MemBudget THEN mcache' = mcache
              ELSE /\ mcache' # <<>> /\ mcache'[1] = e
                   /\ IsPrefix(Tail(mcache'), rest)
                   /\ Len(mcache') <= Len(rest) =>
                         SizeOf(SubSeq(rest, 1, Len(mcache'))) + entrySize(e)
                             > MemBudget
    /\ MemOp("load") =>
          IF cls'.entry = <<>> THEN mcache' = mcache
          ELSE mcache' = cls'.entry \o Without(mcache, cls'.key)

C14_MemoryBudget == []C14_State /\ [][C14_Step]_vars

\* two entries were stored, the older was loaded, and a third Store evicted
\* the one that was not
C14_Witness ==
    /\ Len(mcache) = 2
    /\ mcache[1].gen = 3 /\ mcache[2].gen = 1
    /\ SizeOf(mcache) = MemBudget
    /\ \E t \in expire : t.gen = 2 /\ t.hash \notin KeysOf(mcache)

\* an entry larger than the budget was stored and the cache is as it was
C14_WitnessDropped ==
    /\ cls.pc = "store" /\ entrySize(cls.entry) > MemBudget
    /\ mcache # <<>>

(***************************************************************************)
(* C15.  An entry of the memory cache is not returned once its expiration  *)
(* has fired: the entries held are those whose timer is still pending, a   *)
(* firing timer removes its entry, and a memory hit serves an entry whose  *)
(* timer is pending; after the expiry a GET misses memory and the response *)
(* fetched for it is stored again.  (The firing of the timer stands for    *)
(* the time insertion + maxAge + slack.)                                   *)
(***************************************************************************)
TimerOf(h) == [hash |-> h, gen |-> mcache[h][1].gen]

C15_State == \A h \in Hashes : mcache[h] # <<>> => TimerOf(h) \in expire

C15_Step ==
    /\ \A t \in expire :
          (t \notin expire' /\ mcache[t.hash] # <<>> /\ TimerOf(t.hash) = t)
          => mcache'[t.hash] = <<>>
    /\ \A s \in Slots : Performs(s, "memory.hit") =>
          LET h == req'[s].hash
          IN  /\ mcache[h] # <<>> /\ TimerOf(h) \in expire
              /\ req'[s].resp.body = mcache[h][1].body
    /\ \A s \in Slots : Performs(s, "memory.miss") => mcache[req'[s].hash] = <<>>

C15_Expiry == []C15_State /\ [][C15_Step]_vars

\* the first entry has expired and a later GET was fetched and stored anew
C15_Witness ==
    /\ counters.rsp_save_memory = 2 /\ counters.req_memory_hit = 0
    /\ \E s \in Slots :
          /\ req[s].pc = "done" /\ Did(s, "memory.store")
          /\ mcache[req[s].hash] # <<>> /\ mcache[req[s].hash][1].gen = 2
          /\ expire = {TimerOf(req[s].hash)}
          /\ \A h \in Hashes \ {req[s].hash} : mcache[h] = <<>>

(***************************************************************************)
(* C17.  A stale timer does nothing: when the entry a timer was scheduled  *)
(* for has been replaced by a later Store of its key (or evicted and       *)
(* stored again), the firing of that timer leaves the cache as it is, and  *)
(* the newer entry keeps its own pending timer.                            *)
(***************************************************************************)
Held(key) == SelectSeq(mcache, LAMBDA e : e.key = key)

C17_Step ==
    MemOp("expire") =>
        LET t == [hash |-> cls'.key, gen |-> cls'.gen]
        IN  /\ t \in expire /\ expire' = expire \ {t}
            /\ (Held(t.hash) = <<>> \/ Held(t.hash)[1].gen # t.gen) =>
                  mcache' = mcache
            /\ (Held(t.hash) # <<>> /\ Held(t.hash)[1].gen = t.gen) =>
                  mcache' = Without(mcache, t.hash)

C17_State ==
    \A i \in 1..Len(mcache) :
        [hash |-> mcache[i].key, gen |-> mcache[i].gen] \in expire

C17_StaleTimer == []C17_State /\ [][C17_Step]_vars

\* the timer of a replaced entry has just fired and the newer entry of its
\* key is held, its own timer pending
C17_Witness ==
    /\ cls.pc = "expire"
    /\ Held(cls.key) # <<>>
    /\ Held(cls.key)[1].gen > cls.gen
    /\ [hash |-> cls.key, gen |-> Held(cls.key)[1].gen] \in expire

(***************************************************************************)
(* The local cache file of one hash on its own: handlers that have fetched *)
(* a response for the hash store it (cacheStoreLocal: the encoded object   *)
(* is written to a temporary file of the same directory, which is then     *)
(* renamed over the destination) while others load the file                *)
(* (cacheLoadLocal).  Here local maps the hash to the bytes of its file    *)
(* and cls holds the writers and the result of the last load.              *)
(***************************************************************************)
\* number of handlers storing at the same time
MaxWriters == 2
Writers == 1..MaxWriters
TheHash == "h1"

\* the objects the writers store: the responses the handler stores durably
StoredObjects ==
    { Entry(setXCacheInfo(NoHeader, "fetch, cached", TheHash), b) : b \in Bodies }

\* the encoded object: the header lines, a blank line, the body
Encode(e) == <<e.hdr.xcache[1], e.hdr.id, "">> \o e.body
\* the decoder: an error without the blank line, else what the bytes give
Decode(bytes) ==
    IF Len(bytes) >= 3 /\ bytes[3] = ""
    THEN <<Entry([xcache |-> <<bytes[1]>>, id |-> bytes[2]],
                 SubSeq(bytes, 4, Len(bytes)))>>
    ELSE <<>>

NoFile == <<"absent">>
IdleWriter == [pc |-> "idle", entry |-> NoEntry, tmp |-> <<>>]

LocalInit ==
    /\ local = [h \in Hashes |-> NoFile]
    /\ cls = [pc |-> "local", w |-> [i \in Writers |-> IdleWriter],
              read |-> <<>>, reads |-> 0, last |-> 0]
    /\ req = [s \in Slots |-> Idle]
    /\ mcache = [h \in Hashes |-> <<>>]
    /\ expire = {}
    /\ remote = [h \in Hashes |-> <<>>]
    /\ tasks = EmptyBag
    /\ counters = ZeroCounters

\* cacheStoreLocal begins: the temporary file is created
StoreBegin(i, e) ==
    /\ cls.w[i].pc = "idle"
    /\ cls' = [cls EXCEPT !.w[i] = [pc |-> "writing", entry |-> e, tmp |-> <<>>]]
    /\ UNCHANGED <<req, mcache, expire, local, remote, tasks, counters>>

\* StoreWrite that writes to the destination instead of a temporary file
StoreWriteInPlace(i) ==
    /\ cls.w[i].pc = "writing"
    /\ Len(cls.w[i].tmp) < Len(Encode(cls.w[i].entry))
    /\ LET tmp == Append(cls.w[i].tmp, Encode(cls.w[i].entry)[Len(cls.w[i].tmp) + 1])
       IN  /\ cls' = [cls EXCEPT !.w[i].tmp = tmp]
           /\ local' = [local EXCEPT ![TheHash] = tmp]
    /\ UNCHANGED <<req, mcache, expire, remote, tasks, counters>>

\* the next byte of the encoded object is written to the temporary file
StoreWrite(i) ==
    /\ cls.w[i].pc = "writing"
    /\ Len(cls.w[i].tmp) < Len(Encode(cls.w[i].entry))
    /\ cls' = [cls EXCEPT !.w[i].tmp =
                  Append(@, Encode(cls.w[i].entry)[Len(@) + 1])]
    /\ UNCHANGED <<req, mcache, expire, local, remote, tasks, counters>>

\* the temporary file, written in full, is renamed over the destination
StoreRename(i) ==
    /\ cls.w[i].pc = "writing"
    /\ cls.w[i].tmp = Encode(cls.w[i].entry)
    /\ local' = [local EXCEPT ![TheHash] = cls.w[i].tmp]
    /\ cls' = [cls EXCEPT !.w[i] = [@ EXCEPT !.pc = "stored", !.tmp = <<>>],
                          !.last = i]
    /\ UNCHANGED <<req, mcache, expire, remote, tasks, counters>>

\* the write fails: the temporary file is removed and nothing was renamed
StoreFail(i) ==
    /\ cls.w[i].pc = "writing"
    /\ cls' = [cls EXCEPT !.w[i] = [@ EXCEPT !.pc = "failed", !.tmp = <<>>]]
    /\ UNCHANGED <<req, mcache, expire, local, remote, tasks, counters>>

\* cacheLoadLocal: the destination is read and decoded
LocalLoad ==
    /\ cls.reads < MaxWriters
    /\ cls' = [cls EXCEPT !.reads = @ + 1,
                          !.read = IF local[TheHash] = NoFile THEN <<>>
                                   ELSE Decode(local[TheHash])]
    /\ UNCHANGED <<req, mcache, expire, local, remote, tasks, counters>>

LocalNext ==
    \/ \E i \in Writers, e \in StoredObjects : StoreBegin(i, e)
    \/ \E i \in Writers : StoreWrite(i)
    \/ \E i \in Writers : StoreRename(i)
    \/ \E i \in Writers : StoreFail(i)
    \/ LocalLoad

SpecLocal == LocalInit /\ [][LocalNext]_vars

(***************************************************************************)
(* C16.  Handlers storing the same hash at the same time and handlers      *)
(* loading it: a load finds no entry or one whole entry that one of the    *)
(* writers stored, never a partial or mixed one, and the file holds the    *)
(* entry of the writer that renamed last.                                  *)
(***************************************************************************)
Renamed == { i \in Writers : cls.w[i].pc = "stored" }

C16_AtomicLocalStore ==
    /\ cls.read # <<>> =>
          \E i \in Renamed : cls.read = <<cls.w[i].entry>>
    /\ IF cls.last = 0 THEN local[TheHash] = NoFile /\ Renamed = {}
       ELSE /\ cls.last \in Renamed
            /\ Decode(local[TheHash]) = <<cls.w[cls.last].entry>>

\* two writers with different objects have both renamed, and a load after
\* the first rename had found its whole entry while the second was writing
C16_Witness ==
    /\ Renamed = Writers
    /\ \E i \in Writers :
          /\ i # cls.last
          /\ cls.w[i].entry # cls.w[cls.last].entry
          /\ cls.read = <<cls.w[i].entry>>

(***************************************************************************)
(* C18.  For a 200 response without no-store and no-cache, and s the       *)
(* seconds of the max-age the parser accepted (0 when it accepted none):   *)
(* canMemoryCache returns (s seconds, true) exactly when 0 < s < 3600, and *)
(* (0, false) otherwise.                                                   *)
(***************************************************************************)
VolatileRule(ds) ==
    LET sec == MaxAgeSeconds(ds, [err |-> FALSE, neg |-> FALSE, mag |-> <<>>])
        mag == Normalise(sec.mag)
    IN  IF ~sec.neg /\ mag # <<>> /\ Cmp(mag, <<3600>>) < 0
        THEN [maxAge |-> MulAdd(MulAdd(MulAdd(mag, 1000, 0), 1000, 0), 1000, 0),
              ok |-> TRUE]
        ELSE [maxAge |-> Zero64, ok |-> FALSE]

C18_VolatileIff ==
    (/\ cls.pc = "out" /\ cls.status = StatusOK
     /\ ~HasDirective(cls.dirs, "no-store") /\ ~HasDirective(cls.dirs, "no-cache"))
    => [maxAge |-> cls.maxAge, ok |-> cls.volatile] = VolatileRule(cls.dirs)

(***************************************************************************)
(* C19.  A request to a target that was forwarded and whose response is    *)
(* not cached, because the request is not cacheable or because the         *)
(* response is neither durable nor volatile, is answered with X-Cache      *)
(* "fetch, uncached" and counts rsp_not_cached once.                       *)
(***************************************************************************)
NotCachedResponse(s) ==
    /\ ToTarget(s) /\ Answered(s)
    /\ \/ ~CacheableReq(s)
       \/ ~Durable(req[s].rsp) /\ ~Volatile(req[s].rsp)

C19_FetchUncached ==
    \A s \in Slots : NotCachedResponse(s) =>
        /\ req[s].resp.hdr.xcache = <<"fetch, uncached">>
        /\ req[s].inc.rsp_not_cached = 1

\* the part of C19 for cacheable requests
C19_CacheableOnly ==
    \A s \in Slots : (NotCachedResponse(s) /\ CacheableReq(s)) =>
        /\ req[s].resp.hdr.xcache = <<"fetch, uncached">>
        /\ req[s].inc.rsp_not_cached = 1

(***************************************************************************)
(* C20.  Conservation of the counters.  Every request takes exactly one of *)
(* the dispositions rejected, memory hit, local hit, remote hit, forward.  *)
(* With no request in flight, req_received is the number of rejected       *)
(* requests plus req_memory_hit + req_local_hit + req_fault_hit +          *)
(* req_forward, and req_local_miss = req_fault_hit + req_fault_miss.  In   *)
(* every state req_fault_miss <= req_forward + the requests in flight and  *)
(* rsp_push + rsp_push_error <= rsp_save.                                  *)
(***************************************************************************)
InFlight == { s \in Slots : Active(s) }
Disposed(cs) ==
    cs.req_memory_hit + cs.req_local_hit + cs.req_fault_hit + cs.req_forward
\* the dispositions the request in s has taken so far
Taken(s) ==
    (IF req[s].host \notin Targets THEN 1 ELSE 0) + Disposed(req[s].inc)
Quiet == InFlight = {}

C20_CounterConservation ==
    /\ \A s \in InFlight :
          /\ req[s].inc.req_received = 1
          /\ Taken(s) \in {0, 1}
          /\ req[s].pc \in {"origin", "body", "start", "done", "fault", "serve"}
                => Taken(s) = 1
          /\ \A c \in {"req_memory_hit", "req_local_hit", "req_fault_hit",
                       "req_forward", "req_local_miss", "req_fault_miss"} :
                req[s].inc[c] \in {0, 1}
    /\ counters.req_received =
          cls.rejected + Disposed(counters)
          + Cardinality({s \in InFlight : Taken(s) = 0})
    /\ Quiet =>
          /\ counters.req_received = cls.rejected + Disposed(counters)
          /\ counters.req_local_miss =
                counters.req_fault_hit + counters.req_fault_miss
    /\ counters.req_fault_miss <= counters.req_forward + Cardinality(InFlight)
    /\ counters.rsp_push + counters.rsp_push_error <= counters.rsp_save

\* no request is in flight; one was rejected, one was forwarded to the origin
C20_Witness ==
    /\ Quiet
    /\ counters.req_received = 2 /\ cls.rejected = 1
    /\ counters.req_forward = 1 /\ counters.req_fault_miss = 0

(***************************************************************************)
(* The signing headers (lib/gcsutil/headers.go) on their own.  A header    *)
(* name is a sequence of characters; http.Header is a function from the    *)
(* keys present to their lists of values.  cls holds the finalize stack,   *)
(* the request's headers, the map of ignored values carried in the         *)
(* context, and what has run.                                              *)
(***************************************************************************)
MaxHeaders == 2

\* textproto.CanonicalMIMEHeaderKey: the first letter and every letter after
\* a hyphen in upper case, the others in lower case
UpperOf(c) ==
    CASE c = "a" -> "A" [] c = "e" -> "E" [] c = "x" -> "X" [] c = "z" -> "Z"
      [] OTHER -> c
LowerOf(c) ==
    CASE c = "A" -> "a" [] c = "E" -> "e" [] c = "X" -> "x" [] c = "Z" -> "z"
      [] OTHER -> c
CanonicalMIMEHeaderKey(h) ==
    [i \in 1..Len(h) |->
        IF i = 1 \/ h[i - 1] = "-" THEN UpperOf(h[i]) ELSE LowerOf(h[i])]

\* http.Header.Get: the first value of the canonical key, "" without one
HeaderGet(hdr, h) ==
    LET k == CanonicalMIMEHeaderKey(h)
    IN  IF k \in DOMAIN hdr /\ Len(hdr[k]) > 0 THEN hdr[k][1] ELSE ""
\* http.Header.Del
HeaderDel(hdr, h) ==
    [k \in DOMAIN hdr \ {CanonicalMIMEHeaderKey(h)} |-> hdr[k]]
\* http.Header.Set: the key holds the one value
HeaderSet(hdr, h, v) ==
    [k \in DOMAIN hdr \cup {CanonicalMIMEHeaderKey(h)} |->
        IF k = CanonicalMIMEHeaderKey(h) THEN <<v>> ELSE hdr[k]]

\* the names a request carries and the names a caller may list
NameAE == <<"A", "-", "E">>
NameX == <<"X">>
NameAuth == <<"A", "z">>
HeaderKeys == {NameAE, NameX}
ListedNames == {NameAE, <<"a", "-", "e">>, NameX}
ValueLists == {<<"gzip">>, <<"">>, <<"gzip", "br">>}
RequestHeaders ==
    UNION { [K -> ValueLists] : K \in SUBSET HeaderKeys }
HeaderLists == UNION { [1..n -> ListedNames] : n \in 0..MaxHeaders }
FinalizeStacks ==
    {<<"Signing">>, <<"Retry", "Signing">>, <<"Signing", "Retry">>,
     <<"Retry">>}

NoIgnored == [h \in {} |-> ""]

\* middleware.Stack.Finalize.Insert(id, relativeTo, pos): <<>> stands for
\* the error returned when relativeTo is not in the stack
IndexOf(stack, id) ==
    IF \E i \in 1..Len(stack) : stack[i] = id
    THEN CHOOSE i \in 1..Len(stack) : stack[i] = id ELSE 0
Insert(stack, id, relativeTo, after) ==
    LET i == IndexOf(stack, relativeTo)
        at == IF after THEN i ELSE i - 1
    IN  IF i = 0 THEN <<>>
        ELSE SubSeq(stack, 1, at) \o <<id>> \o SubSeq(stack, at + 1, Len(stack))

SigningInit ==
    /\ \E st \in FinalizeStacks, hdr \in RequestHeaders, hs \in HeaderLists :
          cls = [pc |-> "new", stack |-> st, at |-> 1, hdr |-> hdr,
                 orig |-> hdr, list |-> hs, ignored |-> NoIgnored,
                 signed |-> {}, ran |-> <<>>]
    /\ req = [s \in Slots |-> Idle]
    /\ mcache = [h \in Hashes |-> <<>>]
    /\ local = [h \in Hashes |-> <<>>]
    /\ expire = {}
    /\ remote = [h \in Hashes |-> <<>>]
    /\ tasks = EmptyBag
    /\ counters = ZeroCounters

SigningRest == <<req, mcache, expire, local, remote, tasks, counters>>

\* IgnoreSigningHeaders where restoreIgnored is put before Signing as well
IgnoreSigningHeadersRestoreFirst ==
    /\ cls.pc = "new"
    /\ LET a == Insert(cls.stack, "IgnoreHeaders", "Signing", FALSE)
           b == IF a = <<>> THEN <<>>
                ELSE Insert(a, "RestoreIgnored", "Signing", FALSE)
       IN  cls' = [cls EXCEPT !.stack = b,
                              !.pc = IF b = <<>> THEN "error" ELSE "run"]
    /\ UNCHANGED SigningRest

\* the function IgnoreSigningHeaders appends to APIOptions, applied to the
\* stack of an operation
IgnoreSigningHeaders ==
    /\ cls.pc = "new"
    /\ LET a == Insert(cls.stack, "IgnoreHeaders", "Signing", FALSE)
           b == IF a = <<>> THEN <<>>
                ELSE Insert(a, "RestoreIgnored", "Signing", TRUE)
       IN  cls' = [cls EXCEPT !.stack = b,
                              !.pc = IF b = <<>> THEN "error" ELSE "run"]
    /\ UNCHANGED SigningRest

\* the step of the stack that runs next
StepIs(id) ==
    /\ cls.pc = "run"
    /\ cls.at <= Len(cls.stack)
    /\ cls.stack[cls.at] = id
\* next.HandleFinalize: the following step, or the end of the stack
Handed(c) ==
    [c EXCEPT !.at = @ + 1, !.ran = Append(@, cls.stack[cls.at]),
              !.pc = IF cls.at = Len(cls.stack) THEN "done" ELSE "run"]

\* the loop of ignoreHeaders over the listed names, in order
RECURSIVE ignoreLoop(_, _, _)
ignoreLoop(hs, hdr, ignored) ==
    IF hs = <<>> THEN [hdr |-> hdr, ignored |-> ignored]
    ELSE LET h == Head(hs)
             v == HeaderGet(hdr, h)
         IN  ignoreLoop(Tail(hs), HeaderDel(hdr, h),
                        [k \in DOMAIN ignored \cup {h} |->
                            IF k = h THEN v ELSE ignored[k]])

ignoreHeaders ==
    /\ StepIs("IgnoreHeaders")
    /\ LET r == ignoreLoop(cls.list, cls.hdr, NoIgnored)
       IN  cls' = Handed([cls EXCEPT !.hdr = r.hdr, !.ignored = r.ignored])
    /\ UNCHANGED SigningRest

\* the signer: it signs the headers the request has now and adds its own
Signing ==
    /\ StepIs("Signing")
    /\ cls' = Handed([cls EXCEPT !.signed = DOMAIN cls.hdr,
                                 !.hdr = HeaderSet(@, NameAuth, "sig")])
    /\ UNCHANGED SigningRest

\* the loop of restoreIgnored over the map, in the order ord
RECURSIVE restoreLoop(_, _, _)
restoreLoop(ord, hdr, ignored) ==
    IF ord = <<>> THEN hdr
    ELSE restoreLoop(Tail(ord), HeaderSet(hdr, Head(ord), ignored[Head(ord)]),
                     ignored)
\* the orders in which range may visit the keys of a map
RangeOrders(m) ==
    { o \in [1..Cardinality(DOMAIN m) -> DOMAIN m] :
        \A i, j \in DOMAIN o : i # j => o[i] # o[j] }

restoreIgnored ==
    /\ StepIs("RestoreIgnored")
    /\ \E ord \in RangeOrders(cls.ignored) :
          cls' = Handed([cls EXCEPT
                           !.hdr = restoreLoop(ord, @, cls.ignored)])
    /\ UNCHANGED SigningRest

\* a step of the stack that leaves the headers alone
OtherStep ==
    /\ StepIs("Retry")
    /\ cls' = Handed(cls)
    /\ UNCHANGED SigningRest

SigningNext ==
    \/ IgnoreSigningHeaders
    \/ ignoreHeaders
    \/ Signing
    \/ restoreIgnored
    \/ OtherStep

SpecSigning == SigningInit /\ [][SigningNext]_vars

(***************************************************************************)
(* C21.  For every request and every list of header names: ignoreHeaders   *)
(* runs before signing and removes each listed header, restoreIgnored runs *)
(* after signing, and after it the request's headers are the headers       *)
(* before ignoreHeaders ran: the same names with the same values, also for *)
(* listed headers that were absent or had several values.  (The header the *)
(* signer itself adds is left out of the comparison.)                      *)
(***************************************************************************)
Restored ==
    /\ cls.pc \in {"run", "done"}
    /\ \E i \in DOMAIN cls.ran : cls.ran[i] = "RestoreIgnored"
Signed ==
    /\ cls.pc \in {"run", "done"}
    /\ \E i \in DOMAIN cls.ran : cls.ran[i] = "Signing"
ListedKeys == { CanonicalMIMEHeaderKey(cls.list[i]) : i \in DOMAIN cls.list }
\* the headers without the one the signer adds
OwnHeaders(hdr) == [k \in DOMAIN hdr \ {NameAuth} |-> hdr[k]]

\* the order of the steps, and no listed header is there at signing
C21_Order ==
    /\ Signed =>
          /\ \E i \in DOMAIN cls.ran :
                /\ cls.ran[i] = "IgnoreHeaders"
                /\ cls.ran[i + 1] = "Signing"
                /\ i + 2 \in DOMAIN cls.ran => cls.ran[i + 2] = "RestoreIgnored"
          /\ cls.signed \cap ListedKeys = {}
          /\ cls.signed = DOMAIN cls.orig \ ListedKeys
    /\ Restored => Signed

C21_RoundTrip ==
    /\ C21_Order
    /\ Restored => OwnHeaders(cls.hdr) = cls.orig

\* the round trip for the headers the list leaves alone, and for a listed
\* header that had exactly one value and is listed under one name only
ListedOnce(k) ==
    Cardinality({ i \in DOMAIN cls.list :
                    CanonicalMIMEHeaderKey(cls.list[i]) = k }) = 1
C21_RoundTripSingle ==
    Restored =>
        /\ \A k \in DOMAIN cls.orig :
              k \notin ListedKeys \/ (Len(cls.orig[k]) = 1 /\ ListedOnce(k))
                 => k \in DOMAIN cls.hdr /\ cls.hdr[k] = cls.orig[k]
        /\ \A k \in DOMAIN OwnHeaders(cls.hdr) :
              k \in DOMAIN cls.orig \/ k \in ListedKeys

\* a listed header that was absent is there after the restore, empty
C21_AbsentBecomesEmpty ==
    Restored =>
        \A k \in ListedKeys \ DOMAIN cls.orig :
            k \in DOMAIN cls.hdr /\ cls.hdr[k] = <<"">>

\* the restore ran for a list naming a header the request had, with one
\* value, and one it did not have
C21_Witness ==
    /\ Restored
    /\ cls.list = <<NameAE, NameX>>
    /\ cls.orig = [k \in {NameAE} |-> <<"gzip">>]

====
